---- MODULE Spec2Model ----
(***************************************************************************)
(* A model of remini (src/remini.py), a Gemini gateway to Reddit.          *)
(*                                                                         *)
(* Strings are sequences of atoms.  An atom is either one character that   *)
(* the code treats specially ("/", " ", ":", ".", "?", "[") or a run of    *)
(* characters that it never looks inside ("r", "comments", "reddit", the   *)
(* percent-escape "%2F", a literal piece of a message).  No string of the  *)
(* model has two different decompositions into atoms, so equality, prefix  *)
(* and substring tests on atom sequences agree with the tests on the       *)
(* character strings they stand for.                                       *)
(***************************************************************************)
EXTENDS Integers, Sequences, FiniteSets, TLC

VARIABLES
    BASE_URL,      \* os.environ['REMINI_BASE_URL']
    LANDING_PAGE,  \* os.environ.get('REMINI_LANDING_PAGE') and the file's state
    reddit,        \* what the praw client answers for the requested object
    adapter,       \* which entry point serves the request: "cli" or "scgi"
    transport,     \* what the transport hands over: sys.argv[-1], or the SCGI env
    path,          \* the path handed to handle_request
    query,         \* the query handed to handle_request
    pc,            \* position of the adapter in its code
    result,        \* outcome of handle_request(path, query)
    supported,     \* outcome of handle_request(path, query, True)
    out,           \* what the adapter has written to the client, in order
    url,           \* the argument of parse_reddit_url
    rewritten,     \* outcome of parse_reddit_url(url)
    rewritten2,    \* outcome of parse_reddit_url applied to that result
    markdown,      \* the argument of parse_markdown, as the converter's output lines
    gemtext        \* outcome of parse_markdown(md)

vars == <<BASE_URL, LANDING_PAGE, reddit, adapter, transport, path, query, pc,
          result, supported, out, url, rewritten, rewritten2, markdown, gemtext>>

----------------------------------------------------------------------------
(* Bounds of the model *)

\* longest token list the request paths are built from
MaxTokens == 6
\* longest path enumerated atom by atom
MaxShort == 3
\* most top-level comments of a submission / direct replies of a comment
MaxItems == 27
\* most items a subreddit or profile listing yields where the cap is not at stake
MaxListing == 2
\* longest parent comment id
MaxId == 2
\* most lines of a converted markdown text
MaxDocLines == 2

ITEM_LIMIT == 25

----------------------------------------------------------------------------
(* Python values *)

\* Python's None, where a str was expected (env.get of a missing key)
None == <<"<None>">>

Whitespace == {" "}

\* bool(s) for a str or None
Truthy(s) == s # None /\ s # <<>>

RECURSIVE lstrip(_, _)
lstrip(s, chars) ==
    IF s # <<>> /\ Head(s) \in chars THEN lstrip(Tail(s), chars) ELSE s

RECURSIVE rstrip(_, _)
rstrip(s, chars) ==
    IF s # <<>> /\ s[Len(s)] \in chars
    THEN rstrip(SubSeq(s, 1, Len(s) - 1), chars)
    ELSE s

strip(s, chars) == rstrip(lstrip(s, chars), chars)

\* index of the first occurrence of an atom of chars in s, 0 if none
find(s, chars) ==
    IF \E i \in 1..Len(s) : s[i] \in chars
    THEN CHOOSE i \in 1..Len(s) :
            /\ s[i] \in chars
            /\ \A j \in 1..(i - 1) : s[j] \notin chars
    ELSE 0

\* s.split(sep): the pieces of s between the occurrences of sep
RECURSIVE split(_, _)
split(s, sep) ==
    LET i == find(s, {sep}) IN
    IF i = 0 THEN <<s>>
    ELSE <<SubSeq(s, 1, i - 1)>> \o split(SubSeq(s, i + 1, Len(s)), sep)

\* sep.join(parts)
RECURSIVE join(_, _)
join(parts, sep) ==
    IF parts = <<>> THEN <<>>
    ELSE IF Len(parts) = 1 THEN parts[1]
    ELSE parts[1] \o <<sep>> \o join(Tail(parts), sep)

\* urllib.parse.unquote: every percent-escape becomes the character it encodes
unquote(s) == [i \in 1..Len(s) |-> IF s[i] = "%2F" THEN "/" ELSE s[i]]

\* needle in haystack
Contains(haystack, needle) ==
    \E i \in 0..(Len(haystack) - Len(needle)) :
        SubSeq(haystack, i + 1, i + Len(needle)) = needle

startswith(s, prefix) ==
    Len(s) >= Len(prefix) /\ SubSeq(s, 1, Len(prefix)) = prefix

Min(a, b) == IF a <= b THEN a ELSE b

\* list[:-1]
DropLast(s) == SubSeq(s, 1, Len(s) - 1)

----------------------------------------------------------------------------
(* The outcome of a call: a bool, a bytes envelope, a str, a list of lines,  *)
(* or the fault it raised.                                                   *)

NoEnv == [status |-> 0, meta |-> <<>>, body |-> <<>>, joined |-> TRUE]

Outcome(kind, b, env, s, lines) ==
    [kind |-> kind, b |-> b, env |-> env, s |-> s, lines |-> lines]

Pending == Outcome("pending", FALSE, NoEnv, <<>>, <<>>)

RetBool(b) == Outcome("bool", b, NoEnv, <<>>, <<>>)

RetBytes(env) == Outcome("bytes", FALSE, env, <<>>, <<>>)

RetStr(s) == Outcome("str", FALSE, NoEnv, s, <<>>)

RetLines(ls) == Outcome("lines", FALSE, NoEnv, <<>>, ls)

\* return ok(display_...(arg)), before the formatter has run
Render(formatter, arg) == Outcome("render", FALSE, NoEnv, arg, << <<formatter>> >>)

Raise(exc) == Outcome("raise", FALSE, NoEnv, <<exc>>, <<>>)

Raised(o) == o.kind = "raise"

\* the first fault among the outcomes, in evaluation order
FirstRaised(os) ==
    os[CHOOSE i \in 1..Len(os) :
            Raised(os[i]) /\ \A j \in 1..(i - 1) : ~Raised(os[j])]

RECURSIVE Flatten(_)
Flatten(ls) == IF ls = <<>> THEN <<>> ELSE Head(ls) \o Flatten(Tail(ls))

\* lines.extend(part) for each part in turn; a fault in any part propagates
Extend(parts) ==
    IF \E i \in 1..Len(parts) : Raised(parts[i])
    THEN FirstRaised(parts)
    ELSE RetLines(Flatten([i \in 1..Len(parts) |-> parts[i].lines]))

----------------------------------------------------------------------------
(* Responses *)

ok(lines, join_on_newline) ==
    [status |-> 20, meta |-> <<"text/gemini">>, body |-> lines,
     joined |-> join_on_newline]

bad_request(msg) == [status |-> 59, meta |-> msg, body |-> <<>>, joined |-> TRUE]

get_input(msg) == [status |-> 10, meta |-> msg, body |-> <<>>, joined |-> TRUE]

redirect(target, perm) ==
    [status |-> IF perm THEN 31 ELSE 30, meta |-> target, body |-> <<>>,
     joined |-> TRUE]

GENERIC_ERR_MSG ==
    <<"Got unexpected error. This could include the page not being available, Reddit being down, or some other error. Details of the error have been logged.">>

REDDIT_DOMAINS == { <<<<"redd">>, <<"it">>>>, <<<<"redd", "it">>, <<"com">>>> }

REDDIT_CMDS == {"r", "u"}

----------------------------------------------------------------------------
(* urllib.parse.urlparse *)

\* atoms that are not runs of letters and digits
Special == {"/", " ", ":", ".", "?", "[", "]", "#", "%2F", "=>"}

IsAlpha(a) == a \notin Special

\* scheme_chars: letters, digits, "+", "-" and "."
IsSchemeChar(a) == a \notin (Special \ {"."})

\* the last n elements of a sequence (all of it when it is shorter)
LastN(s, n) == SubSeq(s, IF Len(s) > n THEN Len(s) - n + 1 ELSE 1, Len(s))

\* the scheme and what follows it
SplitScheme(u1, i) ==
    IF /\ i > 1
       /\ IsAlpha(u1[1])
       /\ \A k \in 1..(i - 1) : IsSchemeChar(u1[k])
    THEN [scheme |-> SubSeq(u1, 1, i - 1), rest |-> SubSeq(u1, i + 1, Len(u1))]
    ELSE [scheme |-> <<>>, rest |-> u1]

\* _splitnetloc(url, 2): u2b is what follows "//", d the first of "/?#" in it
SplitNetloc(u2b, d) ==
    IF d = 0 THEN [netloc |-> u2b, rest |-> <<>>]
    ELSE [netloc |-> SubSeq(u2b, 1, d - 1), rest |-> SubSeq(u2b, d, Len(u2b))]

SplitAuthority(u2) ==
    IF startswith(u2, <<"/", "/">>)
    THEN SplitNetloc(SubSeq(u2, 3, Len(u2)),
                     find(SubSeq(u2, 3, Len(u2)), {"/", "?", "#"}))
    ELSE [netloc |-> <<>>, rest |-> u2]

\* s.split(sep, 1)[0] and [1]
Before(s, i) == IF i = 0 THEN s ELSE SubSeq(s, 1, i - 1)

After(s, i) == IF i = 0 THEN <<>> ELSE SubSeq(s, i + 1, Len(s))

Atoms(s) == {s[k] : k \in 1..Len(s)}

\* u4 is what follows the authority, without the fragment
ParseResult(scheme, netloc, u4) ==
    [raised |-> ("[" \in Atoms(netloc)) # ("]" \in Atoms(netloc)),
     scheme |-> scheme,
     netloc |-> netloc,
     path   |-> Before(u4, find(u4, {"?"})),
     query  |-> After(u4, find(u4, {"?"}))]

urlparse_authority(scheme, a) ==
    ParseResult(scheme, a.netloc, Before(a.rest, find(a.rest, {"#"})))

urlparse_scheme(s) == urlparse_authority(s.scheme, SplitAuthority(s.rest))

urlparse_stripped(u1) == urlparse_scheme(SplitScheme(u1, find(u1, {":"})))

urlparse(u) == urlparse_stripped(lstrip(u, Whitespace))

----------------------------------------------------------------------------
(* The path router.  A branch that renders a page yields the call to make    *)
(* (Render); handle_request makes it.  In check-only mode no branch renders, *)
(* so the URL classifier reads the router's answer from dispatch.            *)

\* handle_r with the submission branch taken for exactly three tokens
handle_r_ExactlyThree(tokens, p, q, check_only) ==
    IF Len(tokens) >= 5 /\ tokens[2] = <<"comments">>
    THEN IF check_only THEN RetBool(TRUE)
         ELSE Render("display_comment", tokens[5])
    ELSE IF Len(tokens) = 3 /\ tokens[2] = <<"comments">>
    THEN IF check_only THEN RetBool(TRUE)
         ELSE Render("display_submission", tokens[3])
    ELSE IF Len(tokens) = 1
    THEN IF check_only THEN RetBool(TRUE)
         ELSE Render("display_subreddit", tokens[1])
    ELSE IF tokens # <<>>
    THEN IF check_only THEN RetBool(FALSE)
         ELSE RetBytes(bad_request(<<"Request invalid or not supported: ">> \o p))
    ELSE IF check_only THEN RetBool(TRUE)
         ELSE IF Truthy(q)
         THEN RetBytes(redirect(BASE_URL \o <<"r", "/">> \o q, TRUE))
         ELSE RetBytes(get_input(<<"Enter subreddit name:">>))

handle_r(tokens, p, q, check_only) ==
    IF Len(tokens) >= 5 /\ tokens[2] = <<"comments">>
    THEN IF check_only THEN RetBool(TRUE)
         ELSE Render("display_comment", tokens[5])
    ELSE IF Len(tokens) >= 3 /\ tokens[2] = <<"comments">>
    THEN IF check_only THEN RetBool(TRUE)
         ELSE Render("display_submission", tokens[3])
    ELSE IF Len(tokens) = 1
    THEN IF check_only THEN RetBool(TRUE)
         ELSE Render("display_subreddit", tokens[1])
    ELSE IF tokens # <<>>
    THEN IF check_only THEN RetBool(FALSE)
         ELSE RetBytes(bad_request(<<"Request invalid or not supported: ">> \o p))
    ELSE IF check_only THEN RetBool(TRUE)
         ELSE IF Truthy(q)
         THEN RetBytes(redirect(BASE_URL \o <<"r", "/">> \o q, TRUE))
         ELSE RetBytes(get_input(<<"Enter subreddit name:">>))

\* handle_u whose check-only answer for an unsupported path is True
handle_u_ChecksTrue(tokens, p, q, check_only) ==
    IF tokens # <<>>
    THEN IF Len(tokens) = 1
         THEN IF check_only THEN RetBool(TRUE)
              ELSE Render("display_redditor", tokens[1])
         ELSE IF check_only THEN RetBool(TRUE)
              ELSE RetBytes(bad_request(<<"Request invalid or not supported: ">> \o p))
    ELSE IF check_only THEN RetBool(TRUE)
         ELSE IF Truthy(q)
         THEN RetBytes(redirect(BASE_URL \o <<"u", "/">> \o q, TRUE))
         ELSE RetBytes(get_input(<<"Enter Redditor name:">>))

\* handle_u with the redirect copied from handle_r unchanged
handle_u_RedirectsToR(tokens, p, q, check_only) ==
    IF tokens # <<>>
    THEN IF Len(tokens) = 1
         THEN IF check_only THEN RetBool(TRUE)
              ELSE Render("display_redditor", tokens[1])
         ELSE IF check_only THEN RetBool(FALSE)
              ELSE RetBytes(bad_request(<<"Request invalid or not supported: ">> \o p))
    ELSE IF check_only THEN RetBool(TRUE)
         ELSE IF Truthy(q)
         THEN RetBytes(redirect(BASE_URL \o <<"r", "/">> \o q, TRUE))
         ELSE RetBytes(get_input(<<"Enter Redditor name:">>))

handle_u(tokens, p, q, check_only) ==
    IF tokens # <<>>
    THEN IF Len(tokens) = 1
         THEN IF check_only THEN RetBool(TRUE)
              ELSE Render("display_redditor", tokens[1])
         ELSE IF check_only THEN RetBool(FALSE)
              ELSE RetBytes(bad_request(<<"Request invalid or not supported: ">> \o p))
    ELSE IF check_only THEN RetBool(TRUE)
         ELSE IF Truthy(q)
         THEN RetBytes(redirect(BASE_URL \o <<"u", "/">> \o q, TRUE))
         ELSE RetBytes(get_input(<<"Enter Redditor name:">>))

\* path.strip().strip('/')
TrimPath(p) == strip(strip(p, Whitespace), {"/"})

\* if not tokens[-1]: tokens.pop(); reading tokens[-1] of an empty list raises
DropEmptyLast(t1) ==
    IF t1 = <<>> THEN [raised |-> TRUE, tokens |-> <<>>]
    ELSE [raised |-> FALSE,
          tokens |-> IF t1[Len(t1)] = <<>> THEN DropLast(t1) ELSE t1]

\* if not tokens[0]: tokens = tokens[1:]
DropEmptyFirst(t0) == IF t0[1] = <<>> THEN Tail(t0) ELSE t0

\* the token list from which the command is read
Tokenize(p) == DropEmptyLast(DropEmptyFirst(split(unquote(p), "/")))

LandingLines == << <<"<landing page>">> >>

\* dispatch_tokens with the command echoed in place of the path
dispatch_tokens_EchoesCommand(t, p, q, check_only) ==
    IF t.raised \/ t.tokens = <<>> THEN Raise("IndexError")
    ELSE IF t.tokens[1] = <<"r">> THEN handle_r(Tail(t.tokens), p, q, check_only)
    ELSE IF t.tokens[1] = <<"u">> THEN handle_u(Tail(t.tokens), p, q, check_only)
    ELSE IF check_only THEN RetBool(FALSE)
    ELSE RetBytes(bad_request(<<"Couldn't parse path \"">> \o t.tokens[1] \o <<"\".">>))

\* dispatch_tokens whose check-only answer for an unknown command is True
dispatch_tokens_ChecksTrue(t, p, q, check_only) ==
    IF t.raised \/ t.tokens = <<>> THEN Raise("IndexError")
    ELSE IF t.tokens[1] = <<"r">> THEN handle_r(Tail(t.tokens), p, q, check_only)
    ELSE IF t.tokens[1] = <<"u">> THEN handle_u(Tail(t.tokens), p, q, check_only)
    ELSE IF check_only THEN RetBool(TRUE)
    ELSE RetBytes(bad_request(<<"Couldn't parse path \"">> \o p \o <<"\".">>))

\* cmd = tokens[0] and the branch on it; reading tokens[0] of an empty list raises
dispatch_tokens(t, p, q, check_only) ==
    IF t.raised \/ t.tokens = <<>> THEN Raise("IndexError")
    ELSE IF t.tokens[1] = <<"r">> THEN handle_r(Tail(t.tokens), p, q, check_only)
    ELSE IF t.tokens[1] = <<"u">> THEN handle_u(Tail(t.tokens), p, q, check_only)
    ELSE IF check_only THEN RetBool(FALSE)
    ELSE RetBytes(bad_request(<<"Couldn't parse path \"">> \o p \o <<"\".">>))

\* p is the trimmed path
dispatch_trimmed(p, q, check_only) ==
    IF p = <<>>
    THEN IF check_only THEN RetBool(TRUE)
         ELSE IF LANDING_PAGE # "unset"
         THEN IF LANDING_PAGE = "unreadable" THEN Raise("OSError")
              ELSE RetBytes(ok(LandingLines, FALSE))
         ELSE RetBytes(ok(<< <<"Remini is working, but no landing page has been set.">> >>,
                          TRUE))
    ELSE dispatch_tokens(Tokenize(p), p, q, check_only)

dispatch(p0, q, check_only) ==
    IF p0 = None THEN Raise("AttributeError")
    ELSE dispatch_trimmed(TrimPath(p0), q, check_only)

----------------------------------------------------------------------------
(* The URL classifier and the markdown adapter *)

\* check is the router's check-only answer for the URL's path
parse_reddit_url_rewrite(u, parsed, check) ==
    IF Raised(check) THEN check
    ELSE IF check.b THEN RetStr(BASE_URL \o lstrip(parsed.path, {"/"}))
    ELSE RetStr(u)

parse_reddit_url_parsed(u, parsed) ==
    IF parsed.raised THEN Raise("ValueError")
    ELSE IF \/ ~(parsed.scheme # <<>> \/ parsed.netloc # <<>>)
            \/ LastN(split(parsed.netloc, "."), 2) \in REDDIT_DOMAINS
    THEN parse_reddit_url_rewrite(u, parsed, dispatch(parsed.path, parsed.query, TRUE))
    ELSE RetStr(u)

parse_reddit_url(u) == parse_reddit_url_parsed(u, urlparse(u))

\* tokens[1] = parse_reddit_url(tokens[1]); ' '.join(tokens)
parse_markdown_link(tokens, target) ==
    IF Raised(target) THEN target
    ELSE RetLines(<< join([tokens EXCEPT ![2] = target.s], " ") >>)

parse_markdown_line(line) ==
    IF startswith(line, <<"#">>) \/ startswith(line, <<"#", "#">>)
    THEN RetLines(<< <<"#">> \o line >>)
    ELSE IF startswith(line, <<"=>", " ">>)
    THEN parse_markdown_link(split(line, " "), parse_reddit_url(split(line, " ")[2]))
    ELSE RetLines(<<line>>)

\* md stands for the markdown text and is the list of lines that
\* md2gemini(md, links='paragraph').split('\n') yields for it
parse_markdown(md) == Extend([i \in 1..Len(md) |-> parse_markdown_line(md[i])])

----------------------------------------------------------------------------
(* What praw answers.  Every id resolves to the one object of its kind that *)
(* the variable reddit describes; reddit.up = FALSE is an upstream fault.   *)

SubmissionPermalink ==
    <<"/", "r", "/", "x", "/", "comments", "/", "sid", "/", "slug", "/">>

PrawComment(i) ==
    [id        |-> <<"c", ToString(i)>>,
     author    |-> <<"alice">>,
     edited    |-> "no",
     score     |-> <<"1">>,
     body      |-> reddit.body,
     permalink |-> SubmissionPermalink \o <<"c", ToString(i), "/">>,
     parent_id |-> reddit.parent_id,
     n_replies |-> reddit.n_comments,
     title     |-> <<"title">>]

PrawSubmission(i) ==
    [id           |-> <<"sid">>,
     author       |-> None,
     edited       |-> "yes",
     score        |-> <<"1">>,
     title        |-> <<"title", ToString(i)>>,
     url          |-> reddit.link,
     permalink    |-> SubmissionPermalink,
     selftext     |-> IF reddit.selftext THEN reddit.body ELSE <<>>,
     n_comments   |-> reddit.n_comments,
     num_comments |-> <<ToString(reddit.n_comments)>>]

\* submission.comments, comment.replies
CommentForest(n) == [i \in 1..n |-> PrawComment(i)]

\* bool(listing): a ListingGenerator defines neither __bool__ nor __len__
ListingTruthy(n) == TRUE

----------------------------------------------------------------------------
(* Helpers on praw objects *)

date_time(obj, date_only) ==
    (IF date_only THEN <<"<date>">> ELSE <<"<date>", " at ", "<time>", " UTC">>)
    \o (IF obj.edited = "yes" THEN <<"*">> ELSE <<>>)

author(obj) == IF obj.author = None THEN <<"[deleted]">> ELSE obj.author

get_submission_url(comment) ==
    parse_reddit_url(join(DropLast(split(rstrip(comment.permalink, {"/"}), "/")), "/"))

\* fragments[-1] = parent_id.lstrip('t1_')
ReplaceLast(fragments, parent_id) ==
    [fragments EXCEPT ![Len(fragments)] = lstrip(parent_id, {"t", "1", "_"})]

\* the pair (URL, is_submission); the URL is the classifier's outcome
get_parent_url(comment) ==
    IF startswith(comment.parent_id, <<"t", "1", "_">>)
    THEN [u |-> parse_reddit_url(
                  join(ReplaceLast(split(rstrip(comment.permalink, {"/"}), "/"),
                                   comment.parent_id), "/")),
          is_submission |-> FALSE]
    ELSE IF startswith(comment.parent_id, <<"t", "3", "_">>)
    THEN [u |-> get_submission_url(comment), is_submission |-> TRUE]
    ELSE [u |-> Raise("ValueError"), is_submission |-> FALSE]

----------------------------------------------------------------------------
(* Content formatters *)

submission_summary_lines(submission, target, parsed, comments_url) ==
    IF Raised(target) THEN target
    ELSE IF Raised(comments_url) THEN comments_url
    ELSE RetLines(<<
        <<"=>", " ">> \o target.s \o <<" ">> \o submission.title,
        <<"created by ">> \o author(submission) \o <<" on ">>
            \o date_time(submission, FALSE) \o <<" - ">> \o submission.score
            \o <<" upvotes (">> \o parsed.scheme \o <<", ">> \o parsed.netloc
            \o <<")">>,
        <<"=>", " ">> \o comments_url.s \o <<" ">> \o submission.num_comments
            \o <<" comments">> >>)

submission_summary(submission) ==
    submission_summary_lines(submission, parse_reddit_url(submission.url),
                             urlparse(submission.url),
                             parse_reddit_url(submission.permalink))

comment_summary_lines(comment, show_num_replies, body, target) ==
    IF Raised(body) THEN body
    ELSE IF Raised(target) THEN target
    ELSE RetLines(<<
        <<"=>", " ">> \o target.s \o <<" ", "Comment by ">> \o author(comment)
            \o <<" at ">> \o date_time(comment, FALSE),
        comment.score \o <<" upvotes">>
            \o (IF show_num_replies
                THEN <<", ", ToString(comment.n_replies), " direct replies">>
                ELSE <<>>),
        <<>> >> \o body.lines)

comment_summary(comment, show_num_replies) ==
    comment_summary_lines(comment, show_num_replies, parse_markdown(comment.body),
                          parse_reddit_url(comment.permalink))

\* for c in items: lines.extend(summary(c)); lines.append('')
SummariesOf(summaries) ==
    Extend([k \in 1..(2 * Len(summaries)) |->
              IF k % 2 = 1 THEN summaries[(k + 1) \div 2] ELSE RetLines(<< <<>> >>)])

\* the summaries of the submissions a listing created with limit=ITEM_LIMIT yields
ListedSubmissions(n) ==
    SummariesOf([i \in 1..Min(n, ITEM_LIMIT) |-> submission_summary(PrawSubmission(i))])

display_subreddit(name, sortby) ==
    IF ~reddit.up THEN Raise("APIException")
    ELSE IF sortby \notin {"hot", "top", "new", "controversial"}
    THEN Raise("ValueError")
    ELSE Extend(<<
        RetLines(<<
            <<"#", " ", "Subreddit: ">> \o name,
            <<"Created on ", "<date>", ". ", "<subscribers>", " subscribers.">>,
            <<>>,
            <<"#", "#", " ", "Submissions">> >>),
        IF ~ListingTruthy(reddit.n_listing)
        THEN RetLines(<< <<"There's nothing here!">> >>)
        ELSE RetLines(<<>>),
        ListedSubmissions(reddit.n_listing) >>)

\* the section after the heading: the placeholder, or a summary per comment
ListedComments(comments) ==
    IF comments = <<>>
    THEN RetLines(<< <<"There's nothing here!">> >>)
    ELSE SummariesOf([i \in 1..Len(comments) |-> comment_summary(comments[i], TRUE)])

\* all is submission.comments, comments is submission.comments[:ITEM_LIMIT]
display_submission_lines(submission, all, comments) ==
    Extend(<<
        RetLines(<<
            <<"#", " ">> \o submission.title,
            <<"=>", " ">> \o submission.url,
            <<"created by ">> \o author(submission) \o <<" on ">>
                \o date_time(submission, FALSE),
            submission.score \o <<" upvotes, ", ToString(Len(all)),
                " top-level comments (showing ", ToString(Len(comments)), ")">>,
            <<>> >>),
        IF submission.selftext # <<>>
        THEN Extend(<<parse_markdown(submission.selftext), RetLines(<< <<>> >>)>>)
        ELSE RetLines(<<>>),
        RetLines(<< <<>>, <<"#", " ", "Comments">>, <<>> >>),
        ListedComments(comments) >>)

\* list[:n]
Slice(s, n) == SubSeq(s, 1, Min(Len(s), n))

\* display_submission without the slice
display_submission_Unsliced(submission_id) ==
    IF ~reddit.up THEN Raise("APIException")
    ELSE display_submission_lines(PrawSubmission(1),
                                  CommentForest(reddit.n_comments),
                                  CommentForest(reddit.n_comments))

display_submission(submission_id) ==
    IF ~reddit.up THEN Raise("APIException")
    ELSE display_submission_lines(PrawSubmission(1),
                                  CommentForest(reddit.n_comments),
                                  Slice(CommentForest(reddit.n_comments), ITEM_LIMIT))

display_comment_header(comment, all, replies, submission_url) ==
    IF Raised(submission_url) THEN submission_url
    ELSE RetLines(<<
        <<"#", " ", "Comment by ">> \o author(comment) \o <<" on ">>
            \o date_time(comment, FALSE),
        comment.score \o <<" upvotes, ", ToString(Len(all)),
            " direct replies (showing ", ToString(Len(replies)), ")">>,
        <<"=>", " ">> \o submission_url.s \o <<" ", "View submission: ">>
            \o comment.title >>)

display_comment_parent(parent) ==
    IF Raised(parent.u) THEN parent.u
    ELSE IF ~parent.is_submission
    THEN RetLines(<< <<"=>", " ">> \o parent.u.s \o <<" ", "View parent comment">> >>)
    ELSE RetLines(<<>>)

\* all is comment.replies, replies is comment.replies[:ITEM_LIMIT]
display_comment_lines(comment, body, all, replies) ==
    IF Raised(body) THEN body
    ELSE Extend(<<
        display_comment_header(comment, all, replies, get_submission_url(comment)),
        display_comment_parent(get_parent_url(comment)),
        RetLines(<< <<>> >>),
        body,
        RetLines(<< <<>>, <<>>, <<"#", " ", "Replies">>, <<>> >>),
        ListedComments(replies) >>)

display_comment(comment_id) ==
    IF ~reddit.up THEN Raise("APIException")
    ELSE display_comment_lines(PrawComment(0), parse_markdown(PrawComment(0).body),
                               CommentForest(reddit.n_comments),
                               Slice(CommentForest(reddit.n_comments), ITEM_LIMIT))

display_redditor(name) ==
    IF ~reddit.up THEN Raise("APIException")
    ELSE IF reddit.suspended
    THEN RetLines(<< <<"#", " ", "Redditor: ">> \o name,
                     <<"User is banned or suspended.">> >>)
    ELSE Extend(<<
        RetLines(<<
            <<"#", " ", "Redditor: ">> \o name,
            <<"Redditor since ", "<date>", " (", "<link_karma>", " link karma, ",
              "<comment_karma>", " comment karma)">>,
            <<>>,
            <<"#", " ", "Submissions">>,
            <<>> >>),
        IF ListingTruthy(reddit.n_listing)
        THEN ListedSubmissions(reddit.n_listing)
        ELSE RetLines(<< <<"User has no submissions.">>, <<>> >>),
        RetLines(<< <<"#", " ", "Comments">>, <<>> >>),
        IF ListingTruthy(reddit.n_user_comments)
        THEN SummariesOf([i \in 1..Min(reddit.n_user_comments, ITEM_LIMIT) |->
                            comment_summary(PrawComment(i), FALSE)])
        ELSE RetLines(<< <<"User has no comments.">>, <<>> >>) >>)

\* ok(display_...(...)): the page as a success response, or the fault
OkPage(page) == IF Raised(page) THEN page ELSE RetBytes(ok(page.lines, TRUE))

\* r is the router's answer; a Render is carried out
handle_request_render(r) ==
    IF r.kind # "render" THEN r
    ELSE IF r.lines[1][1] = "display_comment" THEN OkPage(display_comment(r.s))
    ELSE IF r.lines[1][1] = "display_submission" THEN OkPage(display_submission(r.s))
    ELSE IF r.lines[1][1] = "display_subreddit"
    THEN OkPage(display_subreddit(r.s, "hot"))
    ELSE OkPage(display_redditor(r.s))

handle_request(p0, q, check_only) == handle_request_render(dispatch(p0, q, check_only))

----------------------------------------------------------------------------
(* Inputs *)

RECURSIVE SeqsUpTo(_, _)
SeqsUpTo(S, n) ==
    IF n = 0 THEN {<<>>}
    ELSE LET shorter == SeqsUpTo(S, n - 1)
         IN  shorter \cup {Append(s, a) : s \in shorter, a \in S}

\* token lists: a command or another word, then words and "comments"
TokenLists ==
    {<<c>> \o rest : c \in {<<"r">>, <<"u">>, <<"x">>},
                     rest \in SeqsUpTo({<<"x">>, <<"comments">>}, MaxTokens - 1)}

ShapedPaths ==
    {lead \o join(ts, "/") \o trail :
        lead \in {<<>>, <<"/">>}, trail \in {<<>>, <<"/">>}, ts \in TokenLists}

ShortPaths == SeqsUpTo({"/", " ", "%2F", "r", "x"}, MaxShort)

Paths == ShapedPaths \cup ShortPaths

Queries == {<<>>, <<"foo">>}

CliArgs ==
    {p \o qs : p \in Paths, qs \in {<<>>, <<"?", "foo">>}}
    \cup {<<"/", "/", "[">>, <<"/", "/", "[", "/", "r">>}

ScgiEnvs ==
    [full_path : {None}, PATH_INFO : Paths \cup {None},
     QUERY_STRING : Queries \cup {None}]

Transports(a) ==
    IF a = "cli"
    THEN [full_path : CliArgs, PATH_INFO : {None}, QUERY_STRING : {None}]
    ELSE ScgiEnvs

AbsoluteBase == <<"gemini", ":", "/", "/", "example", ".", "org", "/", "cgi", "/">>

RelativeBase == <<"/", "cgi", "/">>

\* deployments: the base URL and the landing page
Deployments ==
    {<<AbsoluteBase, "unset">>, <<RelativeBase, "readable">>,
     <<AbsoluteBase, "unreadable">>}

DocPlain == << <<"text">> >>

DocLink == << <<"#", " ", "heading">>,
              <<"=>", " ", "/", "r", "/", "x", " ", "label">> >>

DocPoison == << <<"=>", " ", "%2F", " ", "label">> >>

ExternalLink == <<"https", ":", "/", "/", "example", ".", "com", "/", "x">>

Upstream(up, n, body, parent_id) ==
    [up |-> up, n_comments |-> n, n_listing |-> n, n_user_comments |-> n,
     selftext |-> TRUE, body |-> body, parent_id |-> parent_id,
     link |-> ExternalLink, suspended |-> FALSE]

ParentComment == <<"t", "1", "_", "c", "0">>

ParentSubmission == <<"t", "3", "_", "sid">>

\* the upstream states a routed request meets
SmallUpstreams ==
    {Upstream(TRUE, 1, DocLink, ParentComment),
     Upstream(FALSE, 0, DocPlain, ParentComment),
     Upstream(TRUE, 1, DocPoison, ParentSubmission)}

----------------------------------------------------------------------------
(* The entry-point adapters serving one request *)

Idle ==
    /\ path = None /\ query = None
    /\ pc = "start"
    /\ result = Pending /\ supported = Pending
    /\ out = <<>>

NoMarkdown == markdown = <<>> /\ gemtext = Pending

NoClassifier == url = <<>> /\ rewritten = Pending /\ rewritten2 = Pending /\ NoMarkdown

Init ==
    /\ \E d \in Deployments : BASE_URL = d[1] /\ LANDING_PAGE = d[2]
    /\ reddit \in SmallUpstreams
    /\ adapter \in {"cli", "scgi"}
    /\ transport \in Transports(adapter)
    /\ Idle
    /\ NoClassifier

config == <<BASE_URL, LANDING_PAGE, reddit, adapter, transport>>

classifier == <<url, rewritten, rewritten2, markdown, gemtext>>

\* from_cmd_line, up to the try statement: a fault of urlparse is not caught
from_cmd_line_urlparse ==
    /\ adapter = "cli" /\ pc = "start"
    /\ LET parsed == urlparse(transport.full_path) IN
         IF parsed.raised
         THEN pc' = "crashed" /\ UNCHANGED <<path, query>>
         ELSE pc' = "try" /\ path' = parsed.path /\ query' = parsed.query
    /\ UNCHANGED <<config, classifier, result, supported, out>>

\* print(handle_request(path, query).decode())
from_cmd_line_try ==
    /\ adapter = "cli" /\ pc = "try"
    /\ result' = handle_request(path, query, FALSE)
    /\ IF Raised(result')
       THEN pc' = "except" /\ out' = out
       ELSE pc' = "done" /\ out' = Append(out, [form |-> "str", env |-> result'.env])
    /\ UNCHANGED <<config, classifier, path, query, supported>>

\* print(bad_request(GENERIC_ERR_MSG)): the bytes object itself is printed
from_cmd_line_except ==
    /\ adapter = "cli" /\ pc = "except"
    /\ out' = Append(out, [form |-> "repr", env |-> bad_request(GENERIC_ERR_MSG)])
    /\ pc' = "done"
    /\ UNCHANGED <<config, classifier, path, query, result, supported>>

\* produce: env.get('PATH_INFO'), env.get('QUERY_STRING')
produce_env ==
    /\ adapter = "scgi" /\ pc = "start"
    /\ path' = transport.PATH_INFO
    /\ query' = transport.QUERY_STRING
    /\ pc' = "try"
    /\ UNCHANGED <<config, classifier, result, supported, out>>

\* output.write(handle_request(path, query))
produce_try ==
    /\ adapter = "scgi" /\ pc = "try"
    /\ result' = handle_request(path, query, FALSE)
    /\ IF Raised(result')
       THEN pc' = "except" /\ out' = out
       ELSE pc' = "done" /\ out' = Append(out, [form |-> "bytes", env |-> result'.env])
    /\ UNCHANGED <<config, classifier, path, query, supported>>

\* output.write(bad_request(GENERIC_ERR_MSG))
produce_except ==
    /\ adapter = "scgi" /\ pc = "except"
    /\ out' = Append(out, [form |-> "bytes", env |-> bad_request(GENERIC_ERR_MSG)])
    /\ pc' = "done"
    /\ UNCHANGED <<config, classifier, path, query, result, supported>>

\* handle_request(path, query, True) on the request that was served
supports ==
    /\ pc = "done" /\ supported = Pending
    /\ supported' = handle_request(path, query, TRUE)
    /\ UNCHANGED <<config, classifier, path, query, pc, result, out>>

Next ==
    \/ from_cmd_line_urlparse
    \/ from_cmd_line_try
    \/ from_cmd_line_except
    \/ produce_env
    \/ produce_try
    \/ produce_except
    \/ supports

Spec == Init /\ [][Next]_vars

----------------------------------------------------------------------------
(* The router's contract *)

\* the adapter has finished: it returned, or a fault left it
Terminal == pc \in {"done", "crashed"}

\* handle_request has run on the request, in both modes
Routed == pc = "done" /\ supported # Pending

\* the request has a path that is not blank
NonBlank == path # None /\ TrimPath(path) # <<>>

\* the token list of the request's path
ReqTokens == IF NonBlank THEN Tokenize(TrimPath(path)).tokens ELSE <<>>

\* the branch live dispatch takes on the request
LiveBranch ==
    IF dispatch(path, query, FALSE).kind = "render" THEN "render"
    ELSE IF dispatch(path, query, FALSE).kind = "raise"
    THEN IF path # None /\ TrimPath(path) = <<>> THEN "landing" ELSE "none"
    ELSE IF dispatch(path, query, FALSE).env.status = 59 THEN "bad_request"
    ELSE IF dispatch(path, query, FALSE).env.status = 31 THEN "redirect"
    ELSE IF dispatch(path, query, FALSE).env.status = 10 THEN "prompt"
    ELSE "landing"

\* C1: check-only mode answers True exactly when live dispatch takes a branch
\* that is not a bad request: a render, redirect, input-prompt or landing-page
\* branch.
C1_CheckLiveAgreement ==
    Routed =>
        /\ (supported = RetBool(TRUE))
              <=> (LiveBranch \in {"render", "redirect", "prompt", "landing"})
        /\ (supported = RetBool(FALSE)) <=> (LiveBranch = "bad_request")
        /\ (result.kind = "bytes" /\ result.env.status = 59)
              <=> (supported = RetBool(FALSE))

\* C1: a path under u with two tokens is refused in both modes
C1_Witness ==
    /\ Routed
    /\ ReqTokens = << <<"u">>, <<"x">>, <<"x">> >>
    /\ supported = RetBool(FALSE)
    /\ result.env.status = 59

BadShape == RetBytes(bad_request(<<"Request invalid or not supported: ">> \o TrimPath(path)))

NoTokensResponse(c) ==
    IF Truthy(query)
    THEN RetBytes(redirect(BASE_URL \o <<c, "/">> \o query, TRUE))
    ELSE RetBytes(get_input(IF c = "r" THEN <<"Enter subreddit name:">>
                            ELSE <<"Enter Redditor name:">>))

\* the tokens after the command
Rest == Tail(ReqTokens)

\* C2 as stated: under r, exactly [name] is a subreddit listing, exactly
\* [name, "comments", id] a submission thread, five or more tokens with second
\* token "comments" a comment thread, no tokens a redirect or prompt, and every
\* other token list a bad request that echoes the path and is unsupported in
\* check-only mode.
C2_AsStated ==
    (Routed /\ ReqTokens # <<>> /\ ReqTokens[1] = <<"r">>) =>
        IF Rest = <<>> THEN result = NoTokensResponse("r")
        ELSE IF Len(Rest) = 1
        THEN result = OkPage(display_subreddit(Rest[1], "hot"))
        ELSE IF Len(Rest) = 3 /\ Rest[2] = <<"comments">>
        THEN result = OkPage(display_submission(Rest[3]))
        ELSE IF Len(Rest) >= 5 /\ Rest[2] = <<"comments">>
        THEN result = OkPage(display_comment(Rest[5]))
        ELSE result = BadShape /\ supported = RetBool(FALSE)

\* C2, amended: as stated, except that [name, "comments", id, slug] (four
\* tokens) is a submission thread too, for the id in the third token.
C2_Dispatch ==
    (Routed /\ ReqTokens # <<>> /\ ReqTokens[1] = <<"r">>) =>
        IF Rest = <<>> THEN result = NoTokensResponse("r") /\ supported = RetBool(TRUE)
        ELSE IF Len(Rest) = 1
        THEN /\ result = OkPage(display_subreddit(Rest[1], "hot"))
             /\ dispatch(path, query, FALSE) = Render("display_subreddit", Rest[1])
             /\ supported = RetBool(TRUE)
        ELSE IF Len(Rest) \in {3, 4} /\ Rest[2] = <<"comments">>
        THEN /\ result = OkPage(display_submission(Rest[3]))
             /\ dispatch(path, query, FALSE) = Render("display_submission", Rest[3])
             /\ supported = RetBool(TRUE)
        ELSE IF Len(Rest) >= 5 /\ Rest[2] = <<"comments">>
        THEN /\ result = OkPage(display_comment(Rest[5]))
             /\ dispatch(path, query, FALSE) = Render("display_comment", Rest[5])
             /\ supported = RetBool(TRUE)
        ELSE result = BadShape /\ supported = RetBool(FALSE)

\* C2: a submission permalink with its slug has been served as a thread
C2_Witness ==
    /\ Routed
    /\ ReqTokens = << <<"r">>, <<"x">>, <<"comments">>, <<"x">>, <<"x">> >>
    /\ result.kind = "bytes" /\ result.env.status = 20
    /\ supported = RetBool(TRUE)

\* what the client must have received once the adapter has finished
Expected == IF Raised(result) \/ result = Pending
            THEN bad_request(GENERIC_ERR_MSG)
            ELSE result.env

\* C3: for every request and every outcome of the router, the adapter emits
\* exactly one response envelope, the router's if it returned and the generic
\* bad-request envelope otherwise, and no fault escapes.
C3_ExactlyOneEnvelope ==
    Terminal =>
        /\ pc = "done"
        /\ Len(out) = 1
        /\ out[1].env = Expected
        /\ out[1].form \in {"bytes", "str"}

\* C4: for every path that is not blank after trimming, the token list the
\* command is read from is non-empty and neither begins nor ends with an
\* empty token.
C4_TokenizerInvariant ==
    (pc \in {"done", "except"} /\ NonBlank) =>
        /\ ~Tokenize(TrimPath(path)).raised
        /\ ReqTokens # <<>>
        /\ ReqTokens[1] # <<>>
        /\ ReqTokens[Len(ReqTokens)] # <<>>

UnknownCommand == ReqTokens # <<>> /\ ReqTokens[1] \notin {<<"r">>, <<"u">>}

\* C8 as stated: for a first token that is neither r nor u, live dispatch
\* answers 59 with a message that contains the path exactly as received.
C8_AsStated ==
    (pc = "done" /\ UnknownCommand) =>
        /\ result.kind = "bytes" /\ result.env.status = 59
        /\ Contains(result.env.meta, path)

\* C8, amended: for a first token that is neither r nor u, live dispatch
\* answers 59 with a message that contains the path as trimmed of surrounding
\* whitespace and slashes, between double quotes.
C8_EchoesTrimmedPath ==
    (pc = "done" /\ UnknownCommand) =>
        /\ result.kind = "bytes" /\ result.env.status = 59
        /\ Contains(result.env.meta, TrimPath(path))
        /\ (path # TrimPath(path)) => ~Contains(result.env.meta, path)

\* C8: a path with surrounding slashes and an unknown command was refused
C8_Witness ==
    /\ pc = "done"
    /\ path = <<"/", "x", "/", "x", "/">>
    /\ result.env.status = 59

\* the request's path is only the command c, with or without slashes around it
OnlyCommand(c) == path # None /\ strip(path, {"/"}) = <<c>>

\* C9: for a path that is only the command r or u, a non-empty query yields a
\* permanent redirect to BASE_URL + command + "/" + query, and an empty or
\* absent query yields an input prompt.
C9_RedirectOrPrompt ==
    \A c \in REDDIT_CMDS :
        (pc = "done" /\ OnlyCommand(c)) =>
            /\ result.kind = "bytes"
            /\ IF query # None /\ query # <<>>
               THEN /\ result.env.status = 31
                    /\ result.env.meta = BASE_URL \o <<c, "/">> \o query
               ELSE result.env.status = 10
            /\ out = <<[form |-> IF adapter = "cli" THEN "str" ELSE "bytes",
                        env |-> result.env]>>

\* C9: /u/ with a query was redirected
C9_Witness ==
    /\ pc = "done"
    /\ path = <<"/", "u", "/">>
    /\ query = <<"foo">>
    /\ result.env.status = 31

----------------------------------------------------------------------------
(* The URL classifier applied to a URL found in upstream content, and then *)
(* to its own result                                                       *)

Hosts ==
    {<<>>,
     <<"/", "/", "redd", "it", ".", "com">>,
     <<"/", "/", "www", ".", "redd", "it", ".", "com">>,
     <<"/", "/", "redd", ".", "it">>,
     <<"/", "/", "example", ".", "com">>,
     <<"/", "/", "redd", "it", ".", "com", ".", "org">>,
     <<"/", "/", "com">>,
     <<"/", "/", "[">>}

Urls ==
    {sch \o h \o p \o qs :
        sch \in {<<>>, <<"https", ":">>}, h \in Hosts, p \in Paths,
        qs \in {<<>>, <<"?", "foo">>}}

NoTransport == [full_path |-> None, PATH_INFO |-> None, QUERY_STRING |-> None]

InitUrl ==
    /\ BASE_URL \in {AbsoluteBase, RelativeBase}
    /\ LANDING_PAGE = "unset"
    /\ reddit = Upstream(TRUE, 0, DocPlain, ParentComment)
    /\ adapter = "none"
    /\ transport = NoTransport
    /\ Idle
    /\ url \in Urls
    /\ rewritten = Pending
    /\ rewritten2 = Pending
    /\ NoMarkdown

request == <<path, query, pc, result, supported, out>>

\* parse_reddit_url(url)
classify ==
    /\ rewritten = Pending
    /\ rewritten' = parse_reddit_url(url)
    /\ UNCHANGED <<config, request, url, rewritten2, markdown, gemtext>>

\* parse_reddit_url(parse_reddit_url(url))
reclassify ==
    /\ rewritten.kind = "str"
    /\ rewritten2 = Pending
    /\ rewritten2' = parse_reddit_url(rewritten.s)
    /\ UNCHANGED <<config, request, url, rewritten, markdown, gemtext>>

NextUrl ==
    \/ classify
    \/ reclassify

SpecUrl == InitUrl /\ [][NextUrl]_vars

\* u is relative or its host ends in an upstream domain, and the router
\* supports its path
IsGatewayTarget(u) ==
    /\ \/ urlparse(u).scheme = <<>> /\ urlparse(u).netloc = <<>>
       \/ LastN(split(urlparse(u).netloc, "."), 2) \in REDDIT_DOMAINS
    /\ dispatch(urlparse(u).path, urlparse(u).query, TRUE) = RetBool(TRUE)

\* C5: parse_reddit_url never raises; it returns a string for every input,
\* and the input itself when the URL is not a supported gateway target.
C5_NeverRaises ==
    (rewritten # Pending) =>
        /\ rewritten.kind = "str"
        /\ ~IsGatewayTarget(url) => rewritten.s = url

\* C6: parse_reddit_url(u) is BASE_URL followed by u's path without its
\* leading slashes exactly when u is relative or on an upstream host and the
\* router supports its path, and is u unchanged in every other case; what
\* follows BASE_URL never starts with "/".
C6_RewriteExactlyTargets ==
    (rewritten # Pending) =>
        IF IsGatewayTarget(url)
        THEN /\ rewritten = RetStr(BASE_URL \o lstrip(urlparse(url).path, {"/"}))
             /\ ~startswith(SubSeq(rewritten.s, Len(BASE_URL) + 1, Len(rewritten.s)),
                            <<"/">>)
        ELSE rewritten = RetStr(url)

----------------------------------------------------------------------------
(* Thread pages of every length *)

PagePaths ==
    {SubmissionPermalink,
     <<"/", "r", "/", "x", "/", "comments", "/", "sid">>,
     SubmissionPermalink \o <<"c", "0", "/">>}

PageTransports(a) ==
    IF a = "cli"
    THEN [full_path : PagePaths, PATH_INFO : {None}, QUERY_STRING : {None}]
    ELSE [full_path : {None}, PATH_INFO : PagePaths, QUERY_STRING : {<<>>}]

PageUpstreams ==
    {Upstream(up, n, body, parent_id) :
        up \in BOOLEAN, n \in 0..MaxItems,
        body \in {DocPlain, DocLink, DocPoison},
        parent_id \in {ParentComment, ParentSubmission, <<"x">>}}

InitPage ==
    /\ BASE_URL = AbsoluteBase
    /\ LANDING_PAGE = "unset"
    /\ reddit \in PageUpstreams
    /\ adapter \in {"cli", "scgi"}
    /\ transport \in PageTransports(adapter)
    /\ Idle
    /\ NoClassifier

SpecPage == InitPage /\ [][Next]_vars

\* the request was served with the page that formatter built
Rendered(formatter) ==
    /\ pc = "done"
    /\ result.kind = "bytes"
    /\ dispatch(path, query, FALSE).kind = "render"
    /\ dispatch(path, query, FALSE).lines = << <<formatter>> >>

\* the number of comment summaries on a page: their link lines
Summaries(body) ==
    Cardinality({i \in 1..Len(body) :
                    /\ startswith(body[i], <<"=>", " ">>)
                    /\ "Comment by " \in Atoms(body[i])})

\* C10: a submission thread with N top-level comments, and a comment thread
\* with N direct replies, renders exactly min(N, 25) summaries, and its count
\* line reports N as the total and min(N, 25) as the number shown.
C10_PaginationCap ==
    /\ Rendered("display_submission") =>
          /\ Summaries(result.env.body) = Min(reddit.n_comments, 25)
          /\ result.env.body[4] =
                <<"1", " upvotes, ", ToString(reddit.n_comments),
                  " top-level comments (showing ",
                  ToString(Min(reddit.n_comments, 25)), ")">>
    /\ Rendered("display_comment") =>
          /\ Summaries(result.env.body) = Min(reddit.n_comments, 25)
          /\ result.env.body[2] =
                <<"1", " upvotes, ", ToString(reddit.n_comments),
                  " direct replies (showing ",
                  ToString(Min(reddit.n_comments, 25)), ")">>

\* C10: a submission thread with more than 25 top-level comments was rendered
C10_Witness ==
    /\ Rendered("display_submission")
    /\ reddit.n_comments > 25
    /\ Summaries(result.env.body) = 25

----------------------------------------------------------------------------
(* Listings, summaries and the links on them *)

\* comment ids are written character by character: "t1_" + P is stripped by
\* character, and P may begin with any character of the id alphabet
IdAlphabet == {"t", "1", "c", "0"}

CommentIds == SeqsUpTo(IdAlphabet, MaxId) \ {<<>>}

ParentIds ==
    {<<"t", "1", "_">> \o P : P \in CommentIds}
    \cup {ParentSubmission, <<"t", "2", "_", "c">>, <<"c", "0">>}

ContentPaths ==
    {<<"/", "r", "/", "x">>,
     <<"/", "u", "/", "x">>,
     SubmissionPermalink,
     SubmissionPermalink \o <<"c", "0", "/">>}

ContentTransports(a) ==
    IF a = "cli"
    THEN [full_path : ContentPaths, PATH_INFO : {None}, QUERY_STRING : {None}]
    ELSE [full_path : {None}, PATH_INFO : ContentPaths, QUERY_STRING : {<<>>}]

\* a profile's two listings have their own lengths
ContentUpstreams ==
    {[Upstream(up, n, DocPlain, parent_id) EXCEPT !.n_user_comments = nc] :
        up \in BOOLEAN, n \in 0..MaxListing, nc \in 0..MaxListing,
        parent_id \in ParentIds}

InitContent ==
    /\ BASE_URL \in {AbsoluteBase, RelativeBase}
    /\ LANDING_PAGE = "unset"
    /\ reddit \in ContentUpstreams
    /\ adapter \in {"cli", "scgi"}
    /\ transport \in ContentTransports(adapter)
    /\ Idle
    /\ NoClassifier

SpecContent == InitContent /\ [][Next]_vars

\* the page has this line
HasLine(line) == \E i \in 1..Len(result.env.body) : result.env.body[i] = line

\* the number of submission summaries on a page: their "N comments" link lines
SubmissionSummaries(body) ==
    Cardinality({i \in 1..Len(body) :
                    /\ startswith(body[i], <<"=>", " ">>)
                    /\ body[i][Len(body[i])] = " comments"})

\* C11: a listing section whose source yields no items shows its placeholder
\* line and no summaries: "There's nothing here!" on a subreddit page, "User
\* has no submissions." and "User has no comments." on a profile, each
\* section of the profile on its own.
C11_EmptyPlaceholder ==
    /\ (Rendered("display_subreddit") /\ reddit.n_listing = 0) =>
          /\ HasLine(<<"There's nothing here!">>)
          /\ SubmissionSummaries(result.env.body) = 0
    /\ (Rendered("display_redditor") /\ reddit.n_listing = 0) =>
          /\ HasLine(<<"User has no submissions.">>)
          /\ SubmissionSummaries(result.env.body) = 0
    /\ (Rendered("display_redditor") /\ reddit.n_user_comments = 0) =>
          /\ HasLine(<<"User has no comments.">>)
          /\ Summaries(result.env.body) = 0

----------------------------------------------------------------------------
(* parse_markdown applied to the lines the converter hands over *)

\* text lines, heading lines and link lines of gemtext
GemtextLines ==
    {<<>>,
     <<"text">>,
     <<"text", " ", "=>", " ", "x">>,
     <<"=>">>,
     <<"#", " ", "heading">>,
     <<"#", "#", " ", "heading">>,
     <<"=>", " ">>,
     <<"=>", " ", "/", "r", "/", "x">>,
     <<"=>", " ", "/", "r", "/", "x", " ", "label">>,
     <<"=>", " ", "/", "x", "/", "x", " ", "label">>,
     <<"=>", " ">> \o ExternalLink \o <<" ", "label", " ", " ", "two">>,
     <<"=>", " ", " ", "/", "r", "/", "x", " ", "label">>,
     <<"=>", " ", "%2F", " ", "label">>}

Docs == SeqsUpTo(GemtextLines, MaxDocLines)

InitMarkdown ==
    /\ BASE_URL \in {AbsoluteBase, RelativeBase}
    /\ LANDING_PAGE = "unset"
    /\ reddit = Upstream(TRUE, 0, DocPlain, ParentComment)
    /\ adapter = "none"
    /\ transport = NoTransport
    /\ Idle
    /\ url = <<>> /\ rewritten = Pending /\ rewritten2 = Pending
    /\ markdown \in Docs
    /\ gemtext = Pending

\* parse_markdown(md)
convert ==
    /\ gemtext = Pending
    /\ gemtext' = parse_markdown(markdown)
    /\ UNCHANGED <<config, request, url, rewritten, rewritten2, markdown>>

NextMarkdown == convert

SpecMarkdown == InitMarkdown /\ [][NextMarkdown]_vars

IsHeadingLine(line) == startswith(line, <<"#">>)

IsLinkLine(line) == ~IsHeadingLine(line) /\ startswith(line, <<"=>", " ">>)

\* what follows the prefix, from the first character that is not a space
AfterPrefix(line) == lstrip(SubSeq(line, 3, Len(line)), Whitespace)

\* the first whitespace-delimited token after the prefix
LinkTarget(line) == Before(AfterPrefix(line), find(AfterPrefix(line), Whitespace))

\* the rest of the line after the target, its separating space included
LinkLabel(line) ==
    SubSeq(AfterPrefix(line), Len(LinkTarget(line)) + 1, Len(AfterPrefix(line)))

\* C12: parse_markdown turns every link line into the prefix, the classifier's
\* result for the line's first whitespace-delimited token after the prefix,
\* and the rest of the line unchanged; it never hands the classifier an empty
\* target when the line has one; lines that are neither headings nor links
\* are unchanged, and the lines keep their number and order.
C12_LinkLinesRewritten ==
    (gemtext # Pending /\ ~Raised(gemtext)) =>
        /\ Len(gemtext.lines) = Len(markdown)
        /\ \A i \in 1..Len(markdown) :
              IF IsLinkLine(markdown[i])
              THEN /\ gemtext.lines[i] =
                        <<"=>", " ">> \o parse_reddit_url(LinkTarget(markdown[i])).s
                            \o LinkLabel(markdown[i])
                   /\ LinkTarget(markdown[i]) # <<>> => split(markdown[i], " ")[2] # <<>>
              ELSE IsHeadingLine(markdown[i]) \/ gemtext.lines[i] = markdown[i]

----------------------------------------------------------------------------
(* The links on a comment page *)

\* the request was routed to this formatter and the upstream answered
Formatted(formatter) ==
    /\ pc = "done"
    /\ reddit.up
    /\ dispatch(path, query, FALSE).kind = "render"
    /\ dispatch(path, query, FALSE).lines = << <<formatter>> >>

\* the id P of a parent_id "t1_" + P
ParentOf(parent_id) == SubSeq(parent_id, 4, Len(parent_id))

\* the comment's permalink with its final segment replaced by P, in gateway form
ParentPermalink(P) ==
    BASE_URL \o lstrip(SubmissionPermalink, {"/"}) \o P

ParentLinkLines(body) ==
    {i \in 1..Len(body) :
        /\ startswith(body[i], <<"=>", " ">>)
        /\ body[i][Len(body[i])] = "View parent comment"}

\* C14: on a comment page, a parent_id "t1_" + P gives a "View parent
\* comment" link to the comment's permalink with its last segment replaced
\* by exactly P; a parent_id starting with "t3_" gives no such link; any
\* other parent_id raises.
C14_ParentLink ==
    Formatted("display_comment") =>
        IF startswith(reddit.parent_id, <<"t", "1", "_">>)
        THEN /\ result.kind = "bytes"
             /\ HasLine(<<"=>", " ">> \o ParentPermalink(ParentOf(reddit.parent_id))
                            \o <<" ", "View parent comment">>)
             /\ Cardinality(ParentLinkLines(result.env.body)) = 1
        ELSE IF startswith(reddit.parent_id, <<"t", "3", "_">>)
        THEN /\ result.kind = "bytes"
             /\ ParentLinkLines(result.env.body) = {}
        ELSE Raised(result)

----------------------------------------------------------------------------
(* Following the links of a page *)

\* the link line points into the gateway
GatewayLink(line) == startswith(LinkTarget(line), BASE_URL)

\* the router's answer when the part of the link after BASE_URL is requested
RouteOf(line) ==
    dispatch(SubSeq(LinkTarget(line), Len(BASE_URL) + 1, Len(LinkTarget(line))),
             <<>>, FALSE)

IsThreadLink(line) == line[Len(line)] = " comments"

IsCommentLink(line) == "Comment by " \in Atoms(line)

IsSubmissionLink(line) == "View submission: " \in Atoms(line)

IsParentLink(line) == line[Len(line)] = "View parent comment"

\* the position of a comment summary among the comment summaries of the page
CommentRank(body, i) ==
    Cardinality({j \in 1..i : startswith(body[j], <<"=>", " ">>)
                               /\ IsCommentLink(body[j])})

\* C13: every link a formatter derives from a permalink (the thread link of
\* a submission summary, the link of a comment summary, "View submission"
\* and "View parent comment" on a comment page) is in BASE_URL form, and the
\* part after BASE_URL, requested as a path, is dispatched to the formatter
\* of the same object: the submission thread of <id>, the comment thread of
\* <cid>.
C13_LinkRoundTrip ==
    (pc = "done" /\ result.kind = "bytes" /\ result.env.status = 20) =>
        \A i \in 1..Len(result.env.body) :
            LET line == result.env.body[i] IN
            IF ~startswith(line, <<"=>", " ">>) THEN TRUE
            ELSE IF IsThreadLink(line) \/ IsSubmissionLink(line)
            THEN /\ GatewayLink(line)
                 /\ RouteOf(line) = Render("display_submission", PrawSubmission(1).id)
            ELSE IF IsCommentLink(line)
            THEN /\ GatewayLink(line)
                 /\ RouteOf(line) =
                       Render("display_comment",
                              PrawComment(CommentRank(result.env.body, i)).id)
            ELSE IF IsParentLink(line)
            THEN /\ GatewayLink(line)
                 /\ RouteOf(line) =
                       Render("display_comment", ParentOf(reddit.parent_id))
            ELSE TRUE

====
